---- MODULE Spec2Model ----
(***************************************************************************)
(* The DHT walk engine of p2p/discover: the walk state machine (walk.go),  *)
(* the lookup, random and fixed routes, and the two harnesses that pump    *)
(* the state machine against a transport (runWalk and walkIterator).       *)
(*                                                                         *)
(* A node is identified with its ID, a number of IDs; Nil is the nil       *)
(* *enode.Node.  A query is identified with its index in hops, the         *)
(* sequence of the nodes of the queries advance has returned.              *)
(***************************************************************************)
EXTENDS Integers, Sequences, FiniteSets, TLC

\* ------------------------------------------------------------------ bounds
NumIDs == 3        \* node IDs are 1..NumIDs
MaxResp == 2       \* longest q.resp the transport produces
MaxInitCalls == 2  \* route.init calls followed in one walk

\* --------------------------------------------------------------- constants
alpha == 3
bucketSize == 16
randomRouteBuffer == 32

Nil == 0
IDs == 1..NumIDs
selfID == 1        \* tab.self().ID()

VARIABLES
    mode,         \* who drives the walk: "walk" (direct calls), "run", "iter"
    tab,          \* the nodes in the Table
    seen,         \* walk.seen
    route,        \* walk.route: kind, target, list, asked, buf, fixed
    queries,      \* walk.queries
    inited,       \* walk.inited
    ret,          \* what the last advance returned, and on which path
    hops,         \* the node of every query advance has returned, in order
    qstate,       \* the state of each of these queries
    forwarded,    \* how often each ID was passed to route.addFoundNodes
    replied,      \* how often (0, 1, more) each ID was an entry of a handled q.resp
    initCalls,    \* calls of route.init
    pc,           \* where runWalk or walkIterator.Next stands
    replyCh,      \* runWalk's replyCh, the iterator's respCh: queries sent
    ctxDone,      \* ctx.Done() of runWalk, closeCtx.Done() of the iterator
    shutdown,     \* runWalk's shutdown flag
    out,          \* what runWalk returned
    node,         \* walkIterator.node
    nextRet,      \* what the last walkIterator.Next returned
    net,          \* routeSim.network: the nodes each node of the network knows
    reordered,    \* a reply was handled before the reply of an earlier query
    lastQuery,    \* the query of the last handleResponse: node, resp, err
    tracked,      \* the calls of tab.trackRequest, and what the last one passed
    td,           \* enode.LogDist(target, dest) of a lookupDistances call
    dists,        \* what lookupDistances returned
    handledAtCancel  \* the queries handled when the context was cancelled

walkVars == <<seen, route, queries, inited>>
obsVars == <<ret, hops, qstate, forwarded, replied, initCalls>>
harnessVars == <<pc, replyCh, ctxDone, shutdown, out, node, nextRet>>
netVars == <<net, reordered>>
sideVars == <<lastQuery, tracked, td, dists, handledAtCancel>>
vars == <<mode, tab, seen, route, queries, inited, ret, hops, qstate,
          forwarded, replied, initCalls, pc, replyCh, ctxDone, shutdown, out,
          node, nextRet, net, reordered, lastQuery, tracked, td, dists,
          handledAtCancel>>

\* ---------------------------------------------------------------- helpers
RECURSIVE Xor(_, _)
Xor(a, b) ==
    IF a = 0 /\ b = 0 THEN 0
    ELSE (((a % 2) + (b % 2)) % 2) + (2 * Xor(a \div 2, b \div 2))

RECURSIVE BitLen(_)
BitLen(x) == IF x = 0 THEN 0 ELSE 1 + BitLen(x \div 2)

\* enode.LogDist: 0 for equal IDs, else the position of the highest bit in
\* which they differ.
LogDist(a, b) == BitLen(Xor(a, b))

Range(s) == {s[i] : i \in 1..Len(s)}

InjSeqs(S) ==
    {s \in UNION {[1..n -> S] : n \in 0..Cardinality(S)} :
        \A i, j \in 1..Len(s) : i # j => s[i] # s[j]}

Remove(s, i) == SubSeq(s, 1, i - 1) \o SubSeq(s, i + 1, Len(s))

RECURSIVE Ascending(_)
Ascending(S) ==
    IF S = {} THEN <<>>
    ELSE LET m == CHOOSE x \in S : \A y \in S : x <= y
         IN <<m>> \o Ascending(S \ {m})

\* The replies a transport can leave in q.resp.
Resps == UNION {[1..n -> IDs \cup {Nil}] : n \in 0..MaxResp}

\* ------------------------------------------------------- nodesByDistance
\* nodesByDistance.push: keeps entries sorted by distance to tgt, at most
\* maxElems of them; an ID already present is not inserted again and a new
\* entry goes behind the entries at the same distance.
push(entries, n, tgt, maxElems) ==
    IF n \in Range(entries) THEN entries
    ELSE LET ix == Cardinality({i \in 1..Len(entries) :
                        LogDist(entries[i], tgt) <= LogDist(n, tgt)})
             ins == SubSeq(entries, 1, ix) \o <<n>>
                        \o SubSeq(entries, ix + 1, Len(entries))
         IN IF Len(ins) > maxElems THEN SubSeq(ins, 1, maxElems) ELSE ins

RECURSIVE pushAll(_, _, _, _)
pushAll(entries, ns, tgt, maxElems) ==
    IF ns = <<>> THEN entries
    ELSE pushAll(push(entries, Head(ns), tgt, maxElems), Tail(ns), tgt, maxElems)

\* Table.findnodeByID: the nresults nodes of the table closest to tgt.
findnodeByID(t, tgt, nresults) == pushAll(<<>>, Ascending(t), tgt, nresults)

\* Table.readRandomNodes: up to max nodes of the table.
readRandomNodes(t, max) ==
    LET all == Ascending(t)
    IN IF Len(all) > max THEN SubSeq(all, 1, max) ELSE all

\* ----------------------------------------------------------------- routes
\* lookupRouteInit without the test for an empty result.
lookupRouteInit_nocheck(r, t) ==
    [ok |-> TRUE,
     route |-> [r EXCEPT !.asked = {},
                         !.list = findnodeByID(t, r.target, bucketSize)]]

\* lookupRouteInit asking the table for one node more than bucketSize.
lookupRouteInit_more(r, t) ==
    LET closest == findnodeByID(t, r.target, bucketSize + 1)
    IN IF Len(closest) = 0 THEN [ok |-> FALSE, route |-> r]
       ELSE [ok |-> TRUE, route |-> [r EXCEPT !.asked = {}, !.list = closest]]

\* route.init: [ok, route].
lookupRouteInit(r, t) ==
    LET closest == findnodeByID(t, r.target, bucketSize)
    IN IF Len(closest) = 0 THEN [ok |-> FALSE, route |-> r]
       ELSE [ok |-> TRUE, route |-> [r EXCEPT !.asked = {}, !.list = closest]]

randomRouteInit(r, t) ==
    LET b == readRandomNodes(t, randomRouteBuffer)
    IN [ok |-> Len(b) > 0, route |-> [r EXCEPT !.buf = b]]

fixedRouteInit(r, t) == [ok |-> TRUE, route |-> r]

routeInit(r, t) ==
    CASE r.kind = "lookup" -> lookupRouteInit(r, t)
      [] r.kind = "random" -> randomRouteInit(r, t)
      [] r.kind = "fixed" -> fixedRouteInit(r, t)

\* route.nextHop: the set of possible [n, route]; the random source makes it
\* more than one.
\* lookupNextHop taking the last entry not asked instead of the first.
lookupNextHop_last(r) ==
    LET open == {i \in 1..Len(r.list) : r.list[i] \notin r.asked}
    IN IF open = {} THEN {[n |-> Nil, route |-> r]}
       ELSE LET i == CHOOSE x \in open : \A y \in open : x >= y
            IN {[n |-> r.list[i],
                 route |-> [r EXCEPT !.asked = @ \cup {r.list[i]}]]}

lookupNextHop(r) ==
    LET open == {i \in 1..Len(r.list) : r.list[i] \notin r.asked}
    IN IF open = {} THEN {[n |-> Nil, route |-> r]}
       ELSE LET i == CHOOSE x \in open : \A y \in open : x <= y
            IN {[n |-> r.list[i],
                 route |-> [r EXCEPT !.asked = @ \cup {r.list[i]}]]}

randomNextNode(r) ==
    IF Len(r.buf) = 0 THEN {[n |-> Nil, route |-> r]}
    ELSE {[n |-> r.buf[index], route |-> [r EXCEPT !.buf = Remove(@, index)]] :
            index \in 1..Len(r.buf)}

\* fixedNextHop leaving the hop in the route.
fixedNextHop_keep(r) ==
    IF Len(r.fixed) = 0 THEN {[n |-> Nil, route |-> r]}
    ELSE {[n |-> Head(r.fixed), route |-> r]}

fixedNextHop(r) ==
    IF Len(r.fixed) = 0 THEN {[n |-> Nil, route |-> r]}
    ELSE {[n |-> Head(r.fixed), route |-> [r EXCEPT !.fixed = Tail(@)]]}

nextHop(r) ==
    CASE r.kind = "lookup" -> lookupNextHop(r)
      [] r.kind = "random" -> randomNextNode(r)
      [] r.kind = "fixed" -> fixedNextHop(r)

\* randomRoute.add appending also to a full buffer.
randomAdd_append(b, n) == {Append(b, n)}

\* randomRoute.add: the possible buffers after add(n).
randomAdd(b, n) ==
    IF Len(b) < randomRouteBuffer THEN {Append(b, n)}
    ELSE {[b EXCEPT ![i] = n] : i \in 1..Len(b)}

\* lookupAddFoundNodes keeping one node more than bucketSize.
lookupAddFoundNodes_nocap(r, ns) ==
    {[r EXCEPT !.list = pushAll(@, ns, r.target, bucketSize + 1)]}

\* lookupAddFoundNodes pushing the first node only.
lookupAddFoundNodes_first(r, ns) ==
    {[r EXCEPT !.list = IF ns = <<>> THEN @
                        ELSE push(@, Head(ns), r.target, bucketSize)]}

\* route.addFoundNodes: the set of possible routes.
lookupAddFoundNodes(r, ns) ==
    {[r EXCEPT !.list = pushAll(@, ns, r.target, bucketSize)]}

randomAddFoundNodes(r, ns) ==
    IF Len(ns) = 0 THEN {r}
    ELSE IF Len(ns) = 1 THEN {[r EXCEPT !.buf = b] : b \in randomAdd(r.buf, ns[1])}
    ELSE UNION {UNION {{[r EXCEPT !.buf = b2] : b2 \in randomAdd(b1, ns[i2])} :
                        b1 \in randomAdd(r.buf, ns[i1])} :
                    <<i1, i2>> \in {p \in (1..Len(ns)) \X (1..Len(ns)) : p[1] # p[2]}}

fixedAddFoundNodes(r, ns) == {r}

addFoundNodes(r, ns) ==
    CASE r.kind = "lookup" -> lookupAddFoundNodes(r, ns)
      [] r.kind = "random" -> randomAddFoundNodes(r, ns)
      [] r.kind = "fixed" -> fixedAddFoundNodes(r, ns)

\* route.result
result(r) == IF r.kind = "lookup" THEN r.list ELSE <<>>

\* ------------------------------------------------------------------- walk
\* newWalkSeen without the local node.
newWalkSeen_empty(self) == {}

\* newWalk: the seen set of a new walk.
newWalkSeen(self) == {self}

\* atLimit with the test off by one.
atLimit_gt(q) == q > alpha

\* advance, line 67: no further query while alpha are in flight.
atLimit(q) == q >= alpha

\* advanceDone reporting done with one query still in flight.
advanceDone_early(q) == q <= 1

\* advance, line 75: the done flag returned with the hop, if any.
advanceDone(q) == q = 0

\* advance, lines 62-65: the inited flag after route.init returned ok.
initedAfterInit(ok) == ok

NoRet == [q |-> Nil, done |-> FALSE, path |-> "none"]

\* walk.advance.  ret' is (q, done) and the path taken: "initfail",
\* "limit", "hop" (nextHop gave a node) or "nohop".
advance ==
    \E ini \in {IF inited THEN [ok |-> TRUE, route |-> route]
                ELSE routeInit(route, tab)} :
       /\ initCalls' = IF inited THEN initCalls ELSE initCalls + 1
       /\ IF ~ini.ok
            THEN /\ ret' = [q |-> Nil, done |-> TRUE, path |-> "initfail"]
                 /\ inited' = (inited \/ initedAfterInit(FALSE))
                 /\ route' = ini.route
                 /\ UNCHANGED <<seen, queries, hops>>
            ELSE /\ inited' = (inited \/ initedAfterInit(TRUE))
                 /\ IF atLimit(queries)
                      THEN /\ ret' = [q |-> Nil, done |-> FALSE, path |-> "limit"]
                           /\ route' = ini.route
                           /\ UNCHANGED <<seen, queries, hops>>
                      ELSE \E h \in nextHop(ini.route) :
                             /\ route' = h.route
                             /\ UNCHANGED seen
                             /\ queries' = IF h.n # Nil THEN queries + 1 ELSE queries
                             /\ hops' = IF h.n # Nil THEN Append(hops, h.n) ELSE hops
                             /\ ret' = [q |-> h.n, done |-> advanceDone(queries'),
                                        path |-> IF h.n # Nil THEN "hop" ELSE "nohop"]

\* novel without the test for nil.
novel_nil(n, s) == ~(n \in s)

\* novel without the lookup in seen.
novel_unseen(n, s) == n # Nil

\* handleResponse, line 81: the entries of q.resp that are kept.
novel(n, s) == n # Nil /\ ~(n \in s)

\* handleResponse, lines 79-85: [seen, replyBuffer] after the loop over resp.
\* replyBuffer is scratch: it is emptied before it is read.
RECURSIVE dedup(_, _, _)
dedup(resp, s, rb) ==
    IF resp = <<>> THEN [seen |-> s, replyBuffer |-> rb]
    ELSE IF novel(Head(resp), s)
           THEN dedup(Tail(resp), s \cup {Head(resp)}, Append(rb, Head(resp)))
           ELSE dedup(Tail(resp), s, rb)

\* handleResponse without the decrement of line 87.
queriesAfterResponse_same(q) == q

\* handleResponse, line 87.
queriesAfterResponse(q) == q - 1

\* walk.handleResponse(q) with q.resp = resp (q.err is not read).  The call
\* of tab.trackRequest acts on the Table only, which the walk reads in
\* route.init alone.
handleResponse(resp) ==
    \E d \in {dedup(resp, seen, <<>>)} :
       /\ seen' = d.seen
       /\ \E r \in addFoundNodes(route, d.replyBuffer) : route' = r
       /\ queries' = queriesAfterResponse(queries)
       /\ forwarded' = [id \in IDs |->
                          forwarded[id] + Cardinality({k \in 1..Len(d.replyBuffer) :
                                                          d.replyBuffer[k] = id})]
       /\ replied' = [id \in IDs |->
                        LET c == replied[id] + Cardinality({k \in 1..Len(resp) :
                                                              resp[k] = id})
                        IN IF c > 1 THEN 2 ELSE c]
       /\ ret' = NoRet
       /\ UNCHANGED <<inited, hops, initCalls>>

\* ---------------------------------------------------------- initial state
Routes ==
    {[kind |-> "lookup", target |-> t, list |-> <<>>, asked |-> {},
      buf |-> <<>>, fixed |-> <<>>] : t \in IDs}
    \cup {[kind |-> "random", target |-> Nil, list |-> <<>>, asked |-> {},
           buf |-> <<>>, fixed |-> <<>>]}
    \cup {[kind |-> "fixed", target |-> Nil, list |-> <<>>, asked |-> {},
           buf |-> <<>>, fixed |-> f] : f \in InjSeqs(IDs)}

\* handledAtCancel while the context is not cancelled
NotCancelled == -1

NoQuery == [node |-> Nil, resp |-> <<>>, err |-> FALSE]
NoTrack == [calls |-> 0, node |-> Nil, success |-> FALSE, nodes |-> <<>>]

\* Nothing was observed yet.
NoSide ==
    /\ lastQuery = NoQuery
    /\ tracked = NoTrack
    /\ td = 0
    /\ dists = <<>>
    /\ handledAtCancel = NotCancelled

\* newWalk(tab, r) on a table holding any nodes.
newWalk ==
    /\ route \in Routes
    /\ tab \in IF route.kind = "fixed" THEN {{}} ELSE SUBSET IDs
    /\ seen = newWalkSeen(selfID)
    /\ queries = 0
    /\ inited = FALSE
    /\ ret = NoRet
    /\ hops = <<>>
    /\ qstate = <<>>
    /\ forwarded = [id \in IDs |-> 0]
    /\ replied = [id \in IDs |-> 0]
    /\ initCalls = 0
    /\ net = <<>>
    /\ reordered = FALSE
    /\ NoSide

NoHarness ==
    /\ pc = "none"
    /\ replyCh = <<>>
    /\ ctxDone = FALSE
    /\ shutdown = FALSE
    /\ out = <<>>
    /\ node = Nil
    /\ nextRet = "none"

\* ------------------------------------------- direct calls (as in TestWalk)
InitWalk == mode = "walk" /\ newWalk /\ NoHarness

Advance ==
    /\ mode = "walk"
    /\ inited \/ initCalls < MaxInitCalls
    /\ advance
    /\ qstate' = IF ret'.q # Nil THEN Append(qstate, "emitted") ELSE qstate
    /\ UNCHANGED netVars
    /\ UNCHANGED sideVars
    /\ UNCHANGED <<mode, tab, forwarded, replied>>
    /\ UNCHANGED harnessVars

\* handleResponse on a query advance returned and that was not handled yet.
HandleResponse ==
    /\ mode = "walk"
    /\ \E i \in 1..Len(hops) :
         /\ qstate[i] = "emitted"
         /\ \E resp \in Resps : handleResponse(resp)
         /\ qstate' = [qstate EXCEPT ![i] = "handled"]
    /\ UNCHANGED netVars
    /\ UNCHANGED sideVars
    /\ UNCHANGED <<mode, tab>>
    /\ UNCHANGED harnessVars

NextWalk == Advance \/ HandleResponse

SpecWalk == InitWalk /\ [][NextWalk]_vars

\* ------------------------------------- direct calls on a simulated network
\* routeSimKad.closest: the n nodes closest to id among those a node knows.
closest(known, id, n) == pushAll(<<>>, Ascending(known), id, n)

\* routeSim.runLookupQuery for the query of a lookup: q.resp.  A node that is
\* not in the network leaves it empty (and sets q.err).
runLookupQuery(nw, n, tgt) ==
    IF n \in DOMAIN nw THEN closest(nw[n], tgt, bucketSize) ELSE <<>>

\* The network in which crossConnect was called on the pairs of E.
crossConnected(V, E) == [n \in V |-> {m \in V : m # n /\ {n, m} \in E}]

NetSize == 4       \* nodes of the small networks

\* Every network on the nodes 1..NetSize, with every target.
SmallNetworks ==
    {[network |-> crossConnected(1..NetSize, E), target |-> t] :
        E \in SUBSET {e \in SUBSET (1..NetSize) : Cardinality(e) = 2},
        t \in 1..NetSize}

\* A network that fills the list of the lookup: the local node knows
\* bucketSize - 1 nodes at distance 5 of the target (16 ..), the first of
\* them knows a node further away (32), the second knows a node next to the
\* target (2), and the node further away knows another one next to it (3).
BigNetwork ==
    LET far == 16..(14 + bucketSize)
    IN [network |-> crossConnected({selfID, 2, 3, 32} \cup far,
                        {{selfID, m} : m \in far}
                            \cup {{16, 32}, {17, 2}, {32, 3}}),
        target |-> selfID]

\* The networks of bucketSize + 3 nodes in which every node knows every other
\* node, so that the local node knows more nodes than the list holds; the
\* target is the local node, its neighbour or the node furthest from it.
FullNetworks ==
    LET V == 1..(bucketSize + 3)
    IN {[network |-> crossConnected(V, {{a, b} : a \in V, b \in V}),
         target |-> t] : t \in {selfID, selfID + 1, bucketSize + 3}}

\* newWalk(rs.nodeTable(i), newLookupRouteV5(target)) for the local node of a
\* network.
InitNet ==
    /\ mode = "net"
    /\ \E sim \in SmallNetworks \cup {BigNetwork} \cup FullNetworks :
         /\ net = sim.network
         /\ tab = sim.network[selfID]
         /\ route = [kind |-> "lookup", target |-> sim.target, list |-> <<>>,
                     asked |-> {}, buf |-> <<>>, fixed |-> <<>>]
    /\ seen = newWalkSeen(selfID)
    /\ queries = 0
    /\ inited = FALSE
    /\ ret = NoRet
    /\ hops = <<>>
    /\ qstate = <<>>
    /\ forwarded = [id \in IDs |-> 0]
    /\ replied = [id \in IDs |-> 0]
    /\ initCalls = 0
    /\ reordered = FALSE
    /\ NoSide
    /\ NoHarness

AdvanceNet ==
    /\ mode = "net"
    /\ inited \/ initCalls < MaxInitCalls
    /\ advance
    /\ qstate' = IF ret'.q # Nil THEN Append(qstate, "emitted") ELSE qstate
    /\ UNCHANGED netVars
    /\ UNCHANGED sideVars
    /\ UNCHANGED <<mode, tab, forwarded, replied>>
    /\ UNCHANGED harnessVars

\* The transport call of a query returns and the query is handled, in any
\* order among the queries in flight.
HandleResponseNet ==
    /\ mode = "net"
    /\ \E i \in 1..Len(hops) :
         /\ qstate[i] = "emitted"
         /\ handleResponse(runLookupQuery(net, hops[i], route.target))
         /\ qstate' = [qstate EXCEPT ![i] = "handled"]
         /\ reordered' = (reordered \/ \E j \in 1..(i - 1) : qstate[j] = "emitted")
    /\ UNCHANGED <<mode, tab, net>>
    /\ UNCHANGED sideVars
    /\ UNCHANGED harnessVars

NextNet == AdvanceNet \/ HandleResponseNet

SpecNet == InitNet /\ [][NextNet]_vars

\* ------------------------- direct calls, with q.err and tab.trackRequest
\* success of line 93 taking q.err into account.
trackSuccess_err(resp, err) == Len(resp) > 0 /\ ~err

\* handleResponse, line 93: success, from q.resp and q.err.
trackSuccess(resp, err) == Len(resp) > 0

\* newWalk on a lookup or a random route, the table holding every other node.
InitReply ==
    /\ mode = "reply"
    /\ newWalk
    /\ route.kind # "fixed"
    /\ tab = IDs \ {selfID}
    /\ NoHarness

AdvanceReply ==
    /\ mode = "reply"
    /\ inited \/ initCalls < MaxInitCalls
    /\ advance
    /\ qstate' = IF ret'.q # Nil THEN Append(qstate, "emitted") ELSE qstate
    /\ UNCHANGED netVars
    /\ UNCHANGED sideVars
    /\ UNCHANGED <<mode, tab, forwarded, replied>>
    /\ UNCHANGED harnessVars

\* handleResponse(q) on a query in which the transport left any q.resp and
\* any q.err; the call of tab.trackRequest at its end (lines 93-94) gets the
\* node of the query, success, and the replyBuffer that route.addFoundNodes
\* got.
HandleResponseReply ==
    /\ mode = "reply"
    /\ \E i \in 1..Len(hops) :
         /\ qstate[i] = "emitted"
         /\ \E resp \in Resps, err \in BOOLEAN :
              /\ handleResponse(resp)
              /\ lastQuery' = [node |-> hops[i], resp |-> resp, err |-> err]
              /\ tracked' = [calls |-> tracked.calls + 1,
                             node |-> hops[i],
                             success |-> trackSuccess(resp, err),
                             nodes |-> dedup(resp, seen, <<>>).replyBuffer]
         /\ qstate' = [qstate EXCEPT ![i] = "handled"]
    /\ UNCHANGED netVars
    /\ UNCHANGED <<td, dists, handledAtCancel>>
    /\ UNCHANGED <<mode, tab>>
    /\ UNCHANGED harnessVars

NextReply == AdvanceReply \/ HandleResponseReply

SpecReply == InitReply /\ [][NextReply]_vars

\* ------------------------------- direct calls, on a table that gains nodes
\* newWalk on a lookup or a random route over a table that is empty.
InitTab ==
    /\ mode = "tab"
    /\ newWalk
    /\ route.kind # "fixed"
    /\ tab = {}
    /\ NoHarness

AdvanceTab ==
    /\ mode = "tab"
    /\ inited \/ initCalls < MaxInitCalls
    /\ advance
    /\ qstate' = IF ret'.q # Nil THEN Append(qstate, "emitted") ELSE qstate
    /\ UNCHANGED netVars
    /\ UNCHANGED sideVars
    /\ UNCHANGED <<mode, tab, forwarded, replied>>
    /\ UNCHANGED harnessVars

HandleResponseTab ==
    /\ mode = "tab"
    /\ \E i \in 1..Len(hops) :
         /\ qstate[i] = "emitted"
         /\ \E resp \in Resps : handleResponse(resp)
         /\ qstate' = [qstate EXCEPT ![i] = "handled"]
    /\ UNCHANGED netVars
    /\ UNCHANGED sideVars
    /\ UNCHANGED <<mode, tab>>
    /\ UNCHANGED harnessVars

\* The table, which the walk shares with the rest of the node, gains a node.
tableAddNode ==
    /\ mode = "tab"
    /\ \E n \in IDs \ (tab \cup {selfID}) : tab' = tab \cup {n}
    /\ UNCHANGED mode
    /\ UNCHANGED netVars
    /\ UNCHANGED sideVars
    /\ UNCHANGED walkVars
    /\ UNCHANGED obsVars
    /\ UNCHANGED harnessVars

NextTab == AdvanceTab \/ HandleResponseTab \/ tableAddNode

SpecTab == InitTab /\ [][NextTab]_vars

\* --------------------------------------------------------- lookupDistances
lookupRequestLimit == 3

\* the values of enode.LogDist(target, dest): 0 for equal IDs, else 1..256
LogDists == 0..256

\* the loop of lookupDistances from counter i on, dists being the slice
RECURSIVE lookupDistancesLoop(_, _, _)
lookupDistancesLoop(t, i, ds) ==
    IF ~(Len(ds) < lookupRequestLimit)
    THEN ds
    ELSE LET up == IF t + i <= 256 THEN Append(ds, t + i) ELSE ds
             down == IF t - i > 0 THEN Append(up, t - i) ELSE up
         IN lookupDistancesLoop(t, i + 1, down)

\* lookupDistances(target, dest), t being enode.LogDist(target, dest)
lookupDistances(t) == lookupDistancesLoop(t, 1, <<t>>)

\* any pair of IDs, at any distance
InitDist ==
    /\ mode = "dist"
    /\ td \in LogDists
    /\ dists = <<>>
    /\ lastQuery = NoQuery
    /\ tracked = NoTrack
    /\ handledAtCancel = NotCancelled
    /\ route = [kind |-> "lookup", target |-> selfID, list |-> <<>>,
                asked |-> {}, buf |-> <<>>, fixed |-> <<>>]
    /\ tab = {}
    /\ seen = newWalkSeen(selfID)
    /\ queries = 0
    /\ inited = FALSE
    /\ ret = NoRet
    /\ hops = <<>>
    /\ qstate = <<>>
    /\ forwarded = [id \in IDs |-> 0]
    /\ replied = [id \in IDs |-> 0]
    /\ initCalls = 0
    /\ net = <<>>
    /\ reordered = FALSE
    /\ NoHarness

LookupDistances ==
    /\ mode = "dist"
    /\ dists = <<>>
    /\ dists' = lookupDistances(td)
    /\ UNCHANGED <<lastQuery, tracked, td, handledAtCancel>>
    /\ UNCHANGED netVars
    /\ UNCHANGED <<mode, tab>>
    /\ UNCHANGED walkVars
    /\ UNCHANGED obsVars
    /\ UNCHANGED harnessVars

NextDist == LookupDistances

SpecDist == InitDist /\ [][NextDist]_vars

\* ------------------------------------ direct calls, random route, big table
MaxRandHops == 2   \* queries followed in a walk on a big table

\* Tables of nodes other than those of IDs, with one node less than the
\* buffer of the random route holds, as many, and one more.
LargeTables ==
    {(NumIDs + 1)..(NumIDs + n) :
        n \in (randomRouteBuffer - 1)..(randomRouteBuffer + 1)}

InitRand ==
    /\ mode = "rand"
    /\ route = [kind |-> "random", target |-> Nil, list |-> <<>>, asked |-> {},
                buf |-> <<>>, fixed |-> <<>>]
    /\ tab \in LargeTables
    /\ seen = newWalkSeen(selfID)
    /\ queries = 0
    /\ inited = FALSE
    /\ ret = NoRet
    /\ hops = <<>>
    /\ qstate = <<>>
    /\ forwarded = [id \in IDs |-> 0]
    /\ replied = [id \in IDs |-> 0]
    /\ initCalls = 0
    /\ net = <<>>
    /\ reordered = FALSE
    /\ NoSide
    /\ NoHarness

AdvanceRand ==
    /\ mode = "rand"
    /\ Len(hops) < MaxRandHops
    /\ advance
    /\ qstate' = IF ret'.q # Nil THEN Append(qstate, "emitted") ELSE qstate
    /\ UNCHANGED netVars
    /\ UNCHANGED sideVars
    /\ UNCHANGED <<mode, tab, forwarded, replied>>
    /\ UNCHANGED harnessVars

HandleResponseRand ==
    /\ mode = "rand"
    /\ \E i \in 1..Len(hops) :
         /\ qstate[i] = "emitted"
         /\ \E resp \in Resps : handleResponse(resp)
         /\ qstate' = [qstate EXCEPT ![i] = "handled"]
    /\ UNCHANGED netVars
    /\ UNCHANGED sideVars
    /\ UNCHANGED <<mode, tab>>
    /\ UNCHANGED harnessVars

NextRand == AdvanceRand \/ HandleResponseRand

SpecRand == InitRand /\ [][NextRand]_vars

\* ------------------------------------------------------------ dispatchers
\* A dispatcher that sends its query while the transport call still runs.
dispatcher_early ==
    /\ mode \in {"run", "iter"}
    /\ \E i \in 1..Len(qstate) :
         /\ qstate[i] = "running"
         /\ Len(replyCh) < alpha
         /\ replyCh' = Append(replyCh, i)
    /\ UNCHANGED qstate
    /\ UNCHANGED netVars
    /\ UNCHANGED sideVars
    /\ UNCHANGED <<mode, tab, pc, ctxDone, shutdown, out, node, nextRet>>
    /\ UNCHANGED walkVars
    /\ UNCHANGED <<ret, hops, forwarded, replied, initCalls>>

\* go func() { transport.runLookupQuery(ctx, q); replyCh <- q }() of runWalk
\* and of walkIterator.Next: the transport call of query i returns and q is
\* sent on the channel, which takes a free slot of its alpha.
dispatcher ==
    /\ mode \in {"run", "iter"}
    /\ \E i \in 1..Len(qstate) :
         /\ qstate[i] = "running"
         /\ Len(replyCh) < alpha
         /\ qstate' = [qstate EXCEPT ![i] = "queued"]
         /\ replyCh' = Append(replyCh, i)
    /\ UNCHANGED netVars
    /\ UNCHANGED sideVars
    /\ UNCHANGED <<mode, tab, pc, ctxDone, shutdown, out, node, nextRet>>
    /\ UNCHANGED walkVars
    /\ UNCHANGED <<ret, hops, forwarded, replied, initCalls>>

\* The context of runWalk is cancelled, or walkIterator.Close is called.
cancel ==
    /\ mode \in {"run", "iter"}
    /\ ~ctxDone
    /\ pc # "returned"
    /\ ctxDone' = TRUE
    /\ UNCHANGED netVars
    /\ UNCHANGED sideVars
    /\ UNCHANGED <<mode, tab, pc, replyCh, shutdown, out, node, nextRet>>
    /\ UNCHANGED walkVars
    /\ UNCHANGED obsVars

\* ---------------------------------------------------------------- runWalk
InitRun ==
    /\ mode = "run"
    /\ newWalk
    /\ pc = "loop"
    /\ replyCh = <<>>
    /\ ctxDone = FALSE
    /\ shutdown = FALSE
    /\ out = <<>>
    /\ node = Nil
    /\ nextRet = "none"

\* Line 112 without the test of shutdown.
dispatched_always(sd) == TRUE

\* runWalk, line 112: whether the query advance returned is dispatched.
dispatched(sd) == ~sd

\* runWalk, lines 108-117: advance, return the result when done, else start
\* the dispatcher of the query.
runWalkAdvance ==
    /\ mode = "run"
    /\ pc = "loop"
    /\ advance
    /\ IF ret'.done
         THEN /\ pc' = "returned"
              /\ out' = result(route')
              /\ UNCHANGED qstate
         ELSE /\ pc' = "select"
              /\ qstate' = IF ret'.q = Nil THEN qstate
                           ELSE Append(qstate, IF dispatched(shutdown)
                                               THEN "running" ELSE "dropped")
              /\ UNCHANGED out
    /\ UNCHANGED netVars
    /\ UNCHANGED sideVars
    /\ UNCHANGED <<mode, tab, forwarded, replied, replyCh, ctxDone, shutdown,
                   node, nextRet>>

\* runWalk, lines 119-120: select receives a query and handles it.
runWalkReceive ==
    /\ mode = "run"
    /\ pc = "select"
    /\ replyCh # <<>>
    /\ \E resp \in Resps : handleResponse(resp)
    /\ qstate' = [qstate EXCEPT ![Head(replyCh)] = "handled"]
    /\ replyCh' = Tail(replyCh)
    /\ pc' = "loop"
    /\ UNCHANGED netVars
    /\ UNCHANGED sideVars
    /\ UNCHANGED <<mode, tab, ctxDone, shutdown, out, node, nextRet>>

\* A select that returns the result at once when it takes ctx.Done().
runWalkCtxDone_return ==
    /\ mode = "run"
    /\ pc = "select"
    /\ ctxDone
    /\ pc' = "returned"
    /\ out' = result(route)
    /\ UNCHANGED netVars
    /\ UNCHANGED sideVars
    /\ UNCHANGED <<mode, tab, replyCh, ctxDone, shutdown, node, nextRet>>
    /\ UNCHANGED walkVars
    /\ UNCHANGED obsVars

\* runWalk, lines 121-122: select takes ctx.Done().
runWalkCtxDone ==
    /\ mode = "run"
    /\ pc = "select"
    /\ ctxDone
    /\ shutdown' = TRUE
    /\ pc' = "loop"
    /\ UNCHANGED netVars
    /\ UNCHANGED sideVars
    /\ UNCHANGED <<mode, tab, replyCh, ctxDone, out, node, nextRet>>
    /\ UNCHANGED walkVars
    /\ UNCHANGED obsVars

NextRun ==
    runWalkAdvance \/ runWalkReceive \/ runWalkCtxDone \/ dispatcher \/ cancel

SpecRun == InitRun /\ [][NextRun]_vars

\* runWalk as the Go runtime schedules it.  The goroutine of runWalk is not
\* starved (it advances when it is at the top of its loop, and its select
\* takes a ready case); select picks at random among its ready cases, so a
\* reply that is ready over and over is received in the end; a dispatcher
\* whose transport call has returned sends its query, the channel having a
\* free slot.  The cancellation may come at any time or never.
FairRun ==
    /\ WF_vars(runWalkAdvance)
    /\ WF_vars(runWalkReceive \/ runWalkCtxDone)
    /\ SF_vars(runWalkReceive)
    /\ WF_vars(dispatcher)

SpecRunFair == InitRun /\ [][NextRun]_vars /\ FairRun

\* ----------------------------------------------------------- walkIterator
\* newWalkIterator; pc is "idle" while no Next call is running.
InitIter ==
    /\ mode = "iter"
    /\ newWalk
    /\ pc = "idle"
    /\ replyCh = <<>>
    /\ ctxDone = FALSE
    /\ shutdown = FALSE
    /\ out = <<>>
    /\ node = Nil
    /\ nextRet = "none"

\* Next without the check of lines 150-155.
closedAtEntry_never(done) == FALSE

\* Next, lines 150-155: the select on closeCtx.Done() with a default case.
closedAtEntry(done) == done

\* Next, lines 150-155: a call on a closed iterator.
NextClosed ==
    /\ mode = "iter"
    /\ pc = "idle"
    /\ closedAtEntry(ctxDone)
    /\ node' = Nil
    /\ nextRet' = "false"
    /\ UNCHANGED netVars
    /\ UNCHANGED sideVars
    /\ UNCHANGED <<mode, tab, pc, replyCh, ctxDone, shutdown, out>>
    /\ UNCHANGED walkVars
    /\ UNCHANGED obsVars

\* Next without the assignment of line 166.
currentNode_stale(q, cur) == cur

\* Next, line 166: wit.node = q.node.
currentNode(q, cur) == q

\* Next, lines 159-172: a call on an open iterator, or the next turn of the
\* loop of a running call: advance, then return false (and Close) when
\* done, return true with the query dispatched, or go on to the select.
NextAdvance ==
    /\ mode = "iter"
    /\ \/ pc = "idle" /\ ~closedAtEntry(ctxDone)
       \/ pc = "loop"
    /\ advance
    /\ IF ret'.done
         THEN /\ node' = Nil
              /\ ctxDone' = TRUE
              /\ nextRet' = "false"
              /\ pc' = "idle"
              /\ UNCHANGED qstate
         ELSE IF ret'.q # Nil
           THEN /\ node' = currentNode(ret'.q, node)
                /\ qstate' = Append(qstate, "running")
                /\ nextRet' = "true"
                /\ pc' = "idle"
                /\ UNCHANGED ctxDone
           ELSE /\ pc' = "select"
                /\ nextRet' = "none"
                /\ UNCHANGED <<node, qstate, ctxDone>>
    /\ UNCHANGED netVars
    /\ UNCHANGED sideVars
    /\ UNCHANGED <<mode, tab, forwarded, replied, replyCh, shutdown, out>>

\* Next, lines 175-177: select takes closeCtx.Done().
NextSelectClosed ==
    /\ mode = "iter"
    /\ pc = "select"
    /\ ctxDone
    /\ node' = Nil
    /\ nextRet' = "false"
    /\ pc' = "idle"
    /\ UNCHANGED netVars
    /\ UNCHANGED sideVars
    /\ UNCHANGED <<mode, tab, replyCh, ctxDone, shutdown, out>>
    /\ UNCHANGED walkVars
    /\ UNCHANGED obsVars

\* Next, lines 178-179: select receives a query and handles it.
NextReceive ==
    /\ mode = "iter"
    /\ pc = "select"
    /\ replyCh # <<>>
    /\ \E resp \in Resps : handleResponse(resp)
    /\ qstate' = [qstate EXCEPT ![Head(replyCh)] = "handled"]
    /\ replyCh' = Tail(replyCh)
    /\ pc' = "loop"
    /\ UNCHANGED netVars
    /\ UNCHANGED sideVars
    /\ UNCHANGED <<mode, tab, ctxDone, shutdown, out, node, nextRet>>

NextIter ==
    NextClosed \/ NextAdvance \/ NextSelectClosed \/ NextReceive
        \/ dispatcher \/ cancel

SpecIter == InitIter /\ [][NextIter]_vars

\* A turn of the loop of a running Next call.
NextLoop == pc = "loop" /\ NextAdvance

\* walkIterator as the Go runtime schedules it.  A running Next call is not
\* starved: it goes on with its loop, and its select takes a ready case; a
\* dispatcher whose transport call has returned sends its query.  Whether
\* and when the caller calls Next again or Close is left open.
FairIter ==
    /\ WF_vars(NextLoop)
    /\ WF_vars(NextReceive \/ NextSelectClosed)
    /\ WF_vars(dispatcher)

SpecIterFair == InitIter /\ [][NextIter]_vars /\ FairIter

\* -------------------------------------------- runWalk or a walkIterator
InitHarness == InitRun \/ InitIter

NextHarness ==
    \/ runWalkAdvance \/ runWalkReceive \/ runWalkCtxDone
    \/ NextClosed \/ NextAdvance \/ NextSelectClosed \/ NextReceive
    \/ dispatcher \/ cancel

SpecHarness == InitHarness /\ [][NextHarness]_vars

\* ------------------------------------- runWalk, cancelled on a long route
\* runWalk on a lookup whose table offers more than alpha hops.
InitRunLong ==
    /\ mode = "run"
    /\ route \in {r \in Routes : r.kind = "lookup"}
    /\ tab = 2..(alpha + 2)
    /\ seen = newWalkSeen(selfID)
    /\ queries = 0
    /\ inited = FALSE
    /\ ret = NoRet
    /\ hops = <<>>
    /\ qstate = <<>>
    /\ forwarded = [id \in IDs |-> 0]
    /\ replied = [id \in IDs |-> 0]
    /\ initCalls = 0
    /\ net = <<>>
    /\ reordered = FALSE
    /\ NoSide
    /\ pc = "loop"
    /\ replyCh = <<>>
    /\ ctxDone = FALSE
    /\ shutdown = FALSE
    /\ out = <<>>
    /\ node = Nil
    /\ nextRet = "none"

\* The context of runWalk is cancelled; the number of queries passed to
\* handleResponse so far is noted.
cancelAndMark ==
    /\ mode = "run"
    /\ ~ctxDone
    /\ pc # "returned"
    /\ ctxDone' = TRUE
    /\ handledAtCancel' =
         Cardinality({i \in 1..Len(qstate) : qstate[i] = "handled"})
    /\ UNCHANGED <<lastQuery, tracked, td, dists>>
    /\ UNCHANGED netVars
    /\ UNCHANGED <<mode, tab, pc, replyCh, shutdown, out, node, nextRet>>
    /\ UNCHANGED walkVars
    /\ UNCHANGED obsVars

NextRunLong ==
    \/ runWalkAdvance \/ runWalkReceive \/ runWalkCtxDone
    \/ dispatcher \/ cancelAndMark

SpecRunLong == InitRunLong /\ [][NextRunLong]_vars

\* ---------------------------------------------------------- every driver
Init == InitWalk \/ InitReply \/ InitTab \/ InitDist \/ InitNet \/ InitRand \/ InitRun \/ InitRunLong \/ InitIter

Next ==
    \/ Advance \/ HandleResponse
    \/ AdvanceReply \/ HandleResponseReply
    \/ AdvanceTab \/ HandleResponseTab \/ tableAddNode
    \/ LookupDistances
    \/ AdvanceNet \/ HandleResponseNet
    \/ AdvanceRand \/ HandleResponseRand
    \/ runWalkAdvance \/ runWalkReceive \/ runWalkCtxDone
    \/ NextClosed \/ NextAdvance \/ NextSelectClosed \/ NextReceive
    \/ dispatcher \/ cancel \/ cancelAndMark

Spec == Init /\ [][Next]_vars

\* ----------------------------------------------------------------- claims
Injective(s) == \A i, j \in 1..Len(s) : i # j => s[i] # s[j]
Handled == {i \in 1..Len(qstate) : qstate[i] = "handled"}
Unhandled == {i \in 1..Len(qstate) : qstate[i] # "handled"}
RepliedIDs == {id \in IDs : replied[id] > 0}

\* C1: under any interleaving of advance and handleResponse, with each
\* returned query handled at most once, 0 <= queries <= alpha.
C1_QueriesInRange == 0 <= queries /\ queries <= alpha

C1_Witness == queries = alpha /\ Handled # {}

\* C2: in runWalk and in a walkIterator, the queries handed to the transport
\* and not yet passed to handleResponse are never more than alpha.
Outstanding == {i \in 1..Len(qstate) : qstate[i] \in {"running", "queued"}}

C2_OutstandingAtMostAlpha == Cardinality(Outstanding) <= alpha

C2_Witness ==
    /\ Cardinality(Outstanding) = alpha
    /\ \E i \in Outstanding : qstate[i] = "running"
    /\ \E i \in Outstanding : qstate[i] = "queued"

\* C3: for the lookup route and the random route no node ID is the node of
\* two queries advance returned, whatever the replies.
C3_NoHopTwice == route.kind \in {"lookup", "random"} => Injective(hops)

\* C4: an ID is in seen iff it is the local node's, the node of a query
\* advance returned, or a non-nil entry of a handled reply.
C4_SeenIff == seen = {selfID} \cup Range(hops) \cup RepliedIDs

\* C5: every ID is passed to route.addFoundNodes at most once in a walk, also
\* when it occurs twice in one reply or in two replies.
C5_ForwardedOnce == \A id \in IDs : forwarded[id] <= 1

C5_Witness == \E id \in IDs : forwarded[id] = 1 /\ replied[id] = 2

\* C6: when the table does not hold the local node, the lookup route and the
\* random route never make it a hop, also when replies contain it.
C6_SelfNeverHop ==
    (route.kind \in {"lookup", "random"} /\ ~(selfID \in tab))
        => ~(selfID \in Range(hops))

C6_Witness ==
    /\ route.kind \in {"lookup", "random"}
    /\ ~(selfID \in tab)
    /\ replied[selfID] > 0
    /\ Len(hops) > 1
    /\ qstate[Len(hops)] = "emitted"
    /\ Handled # {}

\* C7: advance returns done exactly when route.init failed or when nextHop
\* gave no node with no query in flight, and then it returns no query.
C7_DoneExactly ==
    ret.path # "none" =>
        /\ ret.done <=> (ret.path = "initfail"
                            \/ (ret.path = "nohop" /\ queries = 0))
        /\ ret.done => ret.q = Nil

C7_Witness == ret.done /\ ret.path = "nohop" /\ Handled # {}

\* C8: on a fixed route, whatever the order of the replies: the hops and the
\* rest of the route always make up the route (each hop once, in route
\* order), done is not returned while a hop is left or a query unhandled, and
\* the advance after the last reply returns (nil, done).
C8_FixedInv ==
    route.kind = "fixed" =>
        /\ ret.done => (route.fixed = <<>> /\ Unhandled = {} /\ ret.q = Nil)
        /\ (ret.path # "none" /\ route.fixed = <<>> /\ Unhandled = {}) => ret.done

C9_EmptyTable ==
    (route.kind \in {"lookup", "random"} /\ tab = {} /\ initCalls > 0) =>
        /\ ret = [q |-> Nil, done |-> TRUE, path |-> "initfail"]
        /\ hops = <<>>
        /\ pc = "returned"
        /\ out = <<>>

C9_Witness ==
    /\ route.kind \in {"lookup", "random"}
    /\ tab = {}
    /\ pc = "returned"
    /\ ret.path = "initfail"

\* C10: route.init is called at most once in a walk, and inited is true
\* after the first advance whatever route.init returned.
C10_InitOnce == initCalls <= 1 /\ (initCalls > 0 => inited)

\* C11: without cancellation, and with every transport call returning, runWalk
\* returns in the end (advance returns done), on the lookup route and on the
\* random route as on any route, whatever the replies.
C11_Terminates == <>(ctxDone \/ pc = "returned")

C11_Witness ==
    /\ pc = "returned"
    /\ ~ctxDone
    /\ route.kind \in {"lookup", "random"}
    /\ ret.path = "nohop"
    /\ Len(hops) > 1
    /\ Unhandled = {}

\* C12: after the cancellation of its context, with the transport calls
\* already dispatched returning, runWalk returns in the end (with the
\* route's result), also when the route still has hops to offer.
C12_ReturnsAfterCancel == ctxDone ~> (pc = "returned")

\* The queries whose transport call was started.
Started == {i \in 1..Len(qstate) : qstate[i] \in {"running", "queued", "handled"}}

C14_Inv ==
    mode = "run" =>
        /\ Injective(replyCh)
        /\ Range(replyCh) = {i \in 1..Len(qstate) : qstate[i] = "queued"}
        /\ pc = "returned" => Outstanding = {}

C14_HandledExactlyOnce ==
    /\ []C14_Inv
    /\ [][\A i \in Handled : qstate'[i] = "handled"]_vars
    /\ (Outstanding # {}) ~> (Outstanding = {})

C14_Witness ==
    /\ pc = "returned"
    /\ ctxDone
    /\ Cardinality(Started) > 1
    /\ Started = Handled

\* In runWalk at most one transport call is outstanding: after each dispatch
\* runWalk waits in its select, and it leaves it with the reply handled or
\* with shutdown set, after which it dispatches nothing.
runWalkOneOutstanding == mode = "run" => Cardinality(Outstanding) <= 1

\* C15: with alpha = 3 and a route that offers alpha hops or more, runWalk
\* comes to have more than one transport call outstanding at once.
C15_RunsInParallel ==
    (mode = "run" /\ route.kind = "fixed" /\ Len(route.fixed) >= alpha)
        => <>(Cardinality(Outstanding) > 1)

\* C16: the send of a dispatcher on the reply channel never blocks: whenever
\* a transport call is still to return, the channel of capacity alpha holds
\* fewer than alpha queries, in runWalk and in the iterator, also after the
\* cancellation or Close; so every dispatcher ends with its transport call.
C16_SendNeverBlocks ==
    /\ Len(replyCh) <= alpha
    /\ (\E i \in 1..Len(qstate) : qstate[i] = "running") => Len(replyCh) < alpha

C16_Witness ==
    /\ ctxDone
    /\ Len(replyCh) = alpha - 1
    /\ \E i \in 1..Len(qstate) : qstate[i] = "running"

\* C17: a Next call that begins after Close has returned returns false and
\* leaves the current node nil, and calls neither advance nor the transport.
C17_NextAfterClose ==
    [][(mode = "iter" /\ pc = "idle" /\ ctxDone) =>
          /\ UNCHANGED <<pc, ret, hops, initCalls, Started>>
          /\ UNCHANGED walkVars
          /\ \/ nextRet' = "false" /\ node' = Nil
             \/ UNCHANGED <<nextRet, node, replyCh>>
             \/ UNCHANGED <<nextRet, node>> /\ Len(replyCh') = Len(replyCh) + 1]_vars

\* Close was called after a Next call had returned true, and the Next call
\* after it returned false.
C17_Witness ==
    /\ mode = "iter"
    /\ pc = "idle"
    /\ ctxDone
    /\ ret.path = "hop"
    /\ nextRet = "false"
    /\ node = Nil

\* C18: each time Next returns true, one new query was returned by advance
\* and dispatched in that call, and Node() is the node of that query (not the
\* local node, the table not holding it); each time Next returns false,
\* Node() is nil.  A query is returned by advance only in the step in which
\* Next returns true.
C18_Inv ==
    mode = "iter" =>
        /\ nextRet = "true" =>
              /\ pc = "idle"
              /\ ret.path = "hop"
              /\ hops # <<>>
              /\ node = hops[Len(hops)]
              /\ node # Nil
              /\ (route.kind \in {"lookup", "random"} /\ ~(selfID \in tab))
                    => node # selfID
        /\ nextRet = "false" => (node = Nil /\ pc = "idle")
        /\ Len(qstate) = Len(hops)

C19_FalseForGood ==
    /\ [](nextRet = "false" => (ctxDone /\ pc = "idle" /\ node = Nil))
    /\ [][nextRet = "false" => (nextRet' = "false" /\ hops' = hops)]_vars

\* Next returned false in its select on Close, with a reply waiting in the
\* channel that a later call would otherwise handle.
C19_Witness ==
    /\ mode = "iter"
    /\ nextRet = "false"
    /\ ret.path \in {"limit", "nohop"}
    /\ ~ret.done
    /\ replyCh # <<>>

\* The nodes a lookup can find: the nodes of the table and the nodes that
\* the nodes found know, the local node left out.
RECURSIVE reach(_)
reach(S) ==
    LET more == (S \cup UNION {net[n] : n \in S \cap DOMAIN net}) \ {selfID}
    IN IF more = S THEN S ELSE reach(more)

Found == reach(tab \ {selfID})

\* The result of the walk in which every reply is handled before the next
\* query is made.
RECURSIVE inOrder(_, _)
inOrder(r, s) ==
    LET h == CHOOSE x \in lookupNextHop(r) : TRUE
    IN IF h.n = Nil THEN result(r)
       ELSE LET d == dedup(runLookupQuery(net, h.n, r.target), s, <<>>)
            IN inOrder(CHOOSE x \in lookupAddFoundNodes(h.route, d.replyBuffer) : TRUE,
                       d.seen)

inOrderResult ==
    LET ini == lookupRouteInit(route, tab)
    IN IF ini.ok THEN inOrder(ini.route, newWalkSeen(selfID)) ELSE <<>>

\* C20: on a fixed network, table and target the lookup ends with the same
\* set of nodes in result() in whatever order the replies of the queries in
\* flight are handled: with the set of the walk that handles them in order.
C20_SameResultAnyOrder ==
    (mode = "net" /\ ret.done) => Range(result(route)) = Range(inOrderResult)

\* C20, amended: when the nodes to be found are no more than bucketSize, the
\* lookup ends with all of them in result(), in whatever order the replies
\* are handled.
C20_SameResultUncapped ==
    (mode = "net" /\ ret.done /\ Cardinality(Found) <= bucketSize)
        => Range(result(route)) = Found

\* A lookup has ended after a reply was handled ahead of an earlier query's,
\* with nodes in the result that replies brought.
C20_Witness ==
    /\ mode = "net"
    /\ ret.done
    /\ reordered
    /\ Cardinality(Found) <= bucketSize
    /\ Len(result(route)) > Cardinality(tab)

\* The network is one in which every node knows every other node.
FullyConnected == \A n \in DOMAIN net : net[n] = DOMAIN net \ {n}

\* The nodes of the network other than the local node.
Remote == DOMAIN net \ {selfID}

\* S is a set of the k nodes nearest to the target: the other nodes of the
\* network are at least as far from it as every node of S.
NearestTo(S, tgt, k) ==
    /\ S \subseteq Remote
    /\ Cardinality(S) = IF Cardinality(Remote) < k THEN Cardinality(Remote) ELSE k
    /\ \A a \in S : \A b \in Remote \ S : LogDist(a, tgt) <= LogDist(b, tgt)

\* C21: in a network in which every node knows every other node and answers
\* with its k nodes closest to the target, the lookup ends with a set of the
\* k nodes nearest to the target as its result, the target node among them
\* when it is a node of the network (other than the local node, which is
\* never a result).
C21_GroundTruth ==
    (mode = "net" /\ FullyConnected /\ ret.done) =>
        /\ NearestTo(Range(result(route)), route.target, bucketSize)
        /\ route.target \in Remote => route.target \in Range(result(route))

\* A lookup in a network of more than bucketSize nodes has ended, with
\* replies handled out of order and the target in the result.
C21_Witness ==
    /\ mode = "net"
    /\ FullyConnected
    /\ ret.done
    /\ reordered
    /\ Cardinality(Remote) > bucketSize
    /\ route.target \in Range(result(route))

\* The list is in the order of the distance to the target.
SortedByDistance(l, tgt) ==
    \A i, j \in 1..Len(l) : i < j => LogDist(l[i], tgt) <= LogDist(l[j], tgt)

\* C22: for the lookup route, when the walk has ended, result() is sorted by
\* ascending distance to the target, holds no ID twice and has at most
\* bucketSize entries.
C22_ResultSorted ==
    (route.kind = "lookup" /\ ret.done) =>
        /\ SortedByDistance(result(route), route.target)
        /\ Injective(result(route))
        /\ Len(result(route)) <= bucketSize

\* A lookup has ended with a full list in which a node found in a reply has
\* taken the place of a node of the table.
C22_Witness ==
    /\ mode = "net"
    /\ ret.done
    /\ Len(result(route)) = bucketSize
    /\ Cardinality(tab) < bucketSize
    /\ tab \ Range(result(route)) # {}

\* C23: for the lookup route, when advance returns done after route.init
\* succeeded, every node of result() was asked: it is in asked and it is the
\* node of a query advance returned.
C23_ResultAsked ==
    (route.kind = "lookup" /\ inited /\ ret.done) =>
        /\ Range(result(route)) \subseteq route.asked
        /\ Range(result(route)) \subseteq Range(hops)

\* A lookup has ended with a node in its result that a reply brought.
C23_Witness ==
    /\ route.kind = "lookup"
    /\ inited
    /\ ret.done
    /\ Range(result(route)) \ tab # {}
    /\ Len(hops) > 1

C25_BufInv ==
    route.kind = "random" =>
        /\ Len(route.buf) <= randomRouteBuffer
        /\ ret.path = "nohop" => route.buf = <<>>

\* The buffer nextHop finds in the next advance: that of route.init in the
\* first advance of the walk.
bufAtNextHop ==
    IF inited THEN route.buf ELSE randomRouteInit(route, tab).route.buf

C25_RandomBuffer ==
    /\ []C25_BufInv
    /\ [][(route.kind = "random" /\ hops' # hops) =>
             \E i \in 1..Len(bufAtNextHop) :
                /\ hops' = Append(hops, bufAtNextHop[i])
                /\ route'.buf = Remove(bufAtNextHop, i)]_vars

\* A node was put into the full buffer in the place of another one, and a
\* hop was taken from the buffer after that.
C25_Witness ==
    /\ mode = "rand"
    /\ Len(hops) = MaxRandHops
    /\ Len(route.buf) = randomRouteBuffer - 1
    /\ Cardinality(Range(route.buf) \cap IDs) = 2
    /\ Cardinality(tab \ (Range(route.buf) \cup Range(hops))) > 0

\* C26: for a query on which the transport set an error, handleResponse
\* passes no node to the route, takes one off the in-flight counter and
\* reports success = false to the table, also when the transport left both
\* an error and nodes in the response.
C26_ErrorIsEmptyReply ==
    (mode = "reply" /\ lastQuery.err) =>
        /\ tracked.nodes = <<>>
        /\ ~tracked.success

\* C27: nil entries of a response are dropped: they are not put in seen, not
\* passed to the route and not passed to the table, and the response takes
\* exactly one off the in-flight counter.
C27_Inv ==
    mode = "reply" =>
        /\ Nil \notin seen
        /\ Nil \notin Range(route.list) \cup Range(route.buf)
        /\ Nil \notin Range(tracked.nodes)

C27_NilDropped ==
    [][(mode = "reply" /\ tracked'.calls = tracked.calls + 1) =>
          /\ queries' = queries - 1
          /\ C27_Inv'
          /\ seen' = seen \cup (Range(lastQuery'.resp) \ {Nil})]_vars

C27_Witness ==
    /\ mode = "reply"
    /\ Nil \in Range(lastQuery.resp)
    /\ tracked.nodes # <<>>
    /\ tracked.calls > 1

\* C28: for every td in 0..256 lookupDistances returns at most
\* lookupRequestLimit distances, each of them in (0, 256].
C28_DistancesInDomain ==
    (mode = "dist" /\ dists # <<>>) =>
        /\ Len(dists) <= lookupRequestLimit
        /\ \A i \in 1..Len(dists) : dists[i] > 0 /\ dists[i] <= 256

\* element k (from 0) of the sequence t, t+1, t-1, t+2, t-2, ...
alternating(t, k) ==
    IF k % 2 = 1 THEN t + (k + 1) \div 2 ELSE t - k \div 2

inDomain(d) == d > 0 /\ d <= 256

\* the first lookupRequestLimit elements of that sequence that lie in (0, 256]
firstInDomain(t) ==
    LET all == SelectSeq([k \in 1..(2 * lookupRequestLimit + 1) |->
                             alternating(t, k - 1)], inDomain)
    IN SubSeq(all, 1, lookupRequestLimit)

\* C29: lookupDistances returns the first lookupRequestLimit elements of
\* td, td+1, td-1, td+2, td-2, ... that lie in the valid range, in that
\* order and without repetition; for td = 255 that is [255, 256, 254].
C29_FirstDistances ==
    (mode = "dist" /\ dists # <<>>) =>
        /\ dists = firstInDomain(td)
        /\ \A i, j \in 1..Len(dists) : dists[i] = dists[j] => i = j
        /\ td = 255 => dists = <<255, 256, 254>>

\* C30: after the cancellation fires during runWalk, at most alpha further
\* queries complete and are passed to handleResponse before runWalk stops.
C30_AtMostAlphaAfterCancel ==
    (mode = "run" /\ handledAtCancel # NotCancelled) =>
        Cardinality(Handled) - handledAtCancel <= alpha

\* C31: with the in-flight counter at alpha, advance returns (nil, false)
\* without calling route.nextHop and leaves the route, seen and the
\* in-flight counter as they were.
C31_LimitFrame ==
    [][(mode = "walk" /\ queries = alpha /\ ret'.path # "none") =>
          /\ ret' = [q |-> Nil, done |-> FALSE, path |-> "limit"]
          /\ route' = route
          /\ seen' = seen
          /\ queries' = queries
          /\ hops' = hops]_vars

C31_Witness ==
    /\ mode = "walk"
    /\ ret.path = "limit"
    /\ queries = alpha
    /\ \E h \in nextHop(route) : h.n # Nil

\* C32: in runWalk the in-flight counter of the walk always equals the
\* number of queries handed to the transport and not yet passed to
\* handleResponse, before and after the cancellation.
C32_CounterIsOutstanding ==
    mode = "run" => queries = Cardinality(Outstanding)

\* C33: once runWalk has taken ctx.Done() and set shutdown, it starts no
\* further transport call (the queries advance returns are dropped), and it
\* goes on receiving: the reply of the query dispatched before is received
\* and passed to handleResponse.
C33_DrainsAfterShutdown ==
    /\ [][(mode = "run" /\ shutdown) =>
             /\ shutdown'
             /\ Outstanding' \subseteq Outstanding
             /\ \A i \in Outstanding \ Outstanding' : qstate'[i] = "handled"]_vars
    /\ (mode = "run" /\ shutdown /\ Outstanding # {}) ~> (Outstanding = {})

C33_Witness ==
    /\ mode = "run"
    /\ shutdown
    /\ Outstanding = {}
    /\ Cardinality(Handled) > 1
    /\ \E i \in 1..Len(qstate) : qstate[i] = "dropped"

\* C34: a call of Next always returns, the transport calls returning: when
\* Next waits in its select, a dispatched query is outstanding or already in
\* the reply channel, also on an iterator that is never closed.
C34_Inv ==
    (mode = "iter" /\ pc = "select") =>
        /\ Outstanding # {}
        /\ queries = Cardinality(Outstanding)

C34_NextReturns ==
    /\ []C34_Inv
    /\ (mode = "iter" /\ pc \in {"loop", "select"}) ~> (pc = "idle")

C34_Witness ==
    /\ mode = "iter"
    /\ pc = "idle"
    /\ ~ctxDone
    /\ nextRet = "true"
    /\ Handled # {}
    /\ Cardinality(Started) > alpha

\* C35: handleResponse is called on a query only after the transport call of
\* that query has returned (the query was sent on the reply channel), and
\* advance and handleResponse are steps of the one owning task: the walk
\* changes only in an advance of the owner at the top of its loop or in a
\* handleResponse in its select, never in a dispatcher.
C35_StrictOrder ==
    /\ [][\A i \in 1..Len(qstate) :
             (qstate[i] # "handled" /\ qstate'[i] = "handled") =>
                 /\ qstate[i] = "queued"
                 /\ replyCh # <<>> /\ Head(replyCh) = i
                 /\ pc = "select"]_vars
    /\ [][walkVars' # walkVars =>
             \/ pc \in {"loop", "idle"} /\ ret'.path # "none" /\ Handled' = Handled
             \/ pc = "select" /\ ret' = NoRet /\ Handled' # Handled]_vars

C35_Witness ==
    /\ mode = "iter"
    /\ Handled # {}
    /\ \E i \in 1..Len(qstate) : qstate[i] = "running"
    /\ \E i \in 1..Len(qstate) : qstate[i] = "queued"

\* C36: once advance has returned done = true the walk is terminal: every
\* later advance returns (nil, true) and emits no query, after a failed init
\* as after a normal termination.
C36_Terminal ==
    [][ret.done => (ret'.done /\ ret'.q = Nil /\ hops' = hops)]_vars

\* The lookup route on which advance calls nextHop: the route, after
\* route.init when the walk was not inited.
routeAtNextHop == IF inited THEN route ELSE lookupRouteInit(route, tab).route

\* C37: lookupRoute.nextHop returns the first entry of the distance-ordered
\* list whose ID is not in asked (the nearest candidate not yet asked), adds
\* exactly that ID to asked, and returns no node only when every entry of
\* the list is in asked.
C37_NextHopNearest ==
    [][(mode = "net" /\ ret' # ret /\ ret'.path \in {"hop", "nohop"}) =>
          \E r \in {routeAtNextHop} :
             IF ret'.path = "hop"
               THEN /\ \E i \in 1..Len(r.list) :
                         /\ r.list[i] = ret'.q
                         /\ \A j \in 1..(i - 1) : r.list[j] \in r.asked
                    /\ ret'.q \notin r.asked
                    /\ \A k \in 1..Len(r.list) :
                         r.list[k] \notin r.asked =>
                             LogDist(ret'.q, r.target) <= LogDist(r.list[k], r.target)
                    /\ route'.asked = r.asked \cup {ret'.q}
                    /\ route'.list = r.list
               ELSE /\ Range(r.list) \subseteq r.asked
                    /\ route' = r]_vars

C37_Witness ==
    /\ mode = "net"
    /\ ret.path = "hop"
    /\ \E i, j, k \in 1..Len(route.list) :
         /\ i < j /\ j < k
         /\ route.list[i] \in route.asked \ {ret.q}
         /\ route.list[j] = ret.q
         /\ route.list[k] \notin route.asked

\* The nodes handleResponse passes to route.addFoundNodes in this step.
foundNow == {id \in IDs : forwarded'[id] > forwarded[id]}

\* C38: after randomRoute.addFoundNodes(ns) two distinct nodes of ns are in
\* the buffer when ns has two or more nodes, the node of ns is in the buffer
\* when ns has one, and the buffer is unchanged when ns is empty, for every
\* outcome of the random source and also with the buffer at or one below
\* randomRouteBuffer.
C38_TwoPromoted ==
    [][(mode = "rand" /\ Handled' # Handled) =>
          /\ Cardinality(foundNow) >= 2 =>
                Cardinality(foundNow \cap Range(route'.buf)) >= 2
          /\ Cardinality(foundNow) = 1 => foundNow \subseteq Range(route'.buf)
          /\ Cardinality(foundNow) = 0 => route'.buf = route.buf]_vars

\* The entries of resp that are nodes not in s, each once, in their order.
novelOf(resp, s) ==
    LET keep == {k \in 1..Len(resp) :
                    /\ resp[k] # Nil
                    /\ resp[k] \notin s
                    /\ \A j \in 1..(k - 1) : resp[j] # resp[k]}
    IN [i \in 1..Cardinality(keep) |->
           resp[CHOOSE k \in keep : Cardinality({j \in keep : j <= k}) = i]]

\* C39: each handleResponse call reports to the table exactly once, for the
\* node of the query, with success = true exactly when the response list of
\* the query is not empty, and with the list of the nodes of that response
\* that were not seen before.
C39_TrackedOnce ==
    /\ [](mode = "reply" => tracked.calls = Cardinality(Handled))
    /\ [][(mode = "reply" /\ Handled' # Handled) =>
             /\ tracked'.calls = tracked.calls + 1
             /\ \E i \in Handled' \ Handled : tracked'.node = hops[i]
             /\ tracked'.node = lastQuery'.node
             /\ tracked'.success = (lastQuery'.resp # <<>>)
             /\ tracked'.nodes = novelOf(lastQuery'.resp, seen)]_vars

C39_Witness ==
    /\ mode = "reply"
    /\ tracked.calls > 1
    /\ tracked.success
    /\ lastQuery.err
    /\ tracked.nodes # <<>>
    /\ Len(tracked.nodes) < Len(lastQuery.resp)

====
